---- MODULE Spec2Model ----
(***************************************************************************)
(* State machine of the calculator component in src/project/src/App.tsx.   *)
(*                                                                         *)
(* The state is the CalculatorState record held by useState.  Every        *)
(* handler is one functional setState update, so every action below is     *)
(* one atomic transition of the record.                                    *)
(*                                                                         *)
(* Strings are sequences of one-character strings, so that slice,          *)
(* concatenation, indexOf and parseFloat act on characters.                *)
(*                                                                         *)
(* Numbers are the IEEE doubles the arithmetic of the handlers is exact    *)
(* on: multiples of one half of magnitude at most MaxVal, written as a     *)
(* count of halves, plus NaN.  A handler whose parseFloat or arithmetic    *)
(* leaves that set (0.1, 1/3, a magnitude above MaxVal) is outside the     *)
(* bounds of the model and is not taken.  Negative zero is identified      *)
(* with zero: the handlers read a number only through ===, the arithmetic  *)
(* operators and toString, and -0 === 0, (-0).toString() is "0", and a     *)
(* division by -0 is caught by inputValue === 0.                           *)
(***************************************************************************)
EXTENDS Integers, Sequences, FiniteSets, TLC

VARIABLES display, previousValue, operation, waitingForNewValue,
          lastOperation, lastOperand, queue, eager, dispatched

(* display .. lastOperand: the rendered CalculatorState.                  *)
(* queue: the updates passed to setState since the last render, in the    *)
(* order of the calls.                                                    *)
(* eager: the state obtained by applying every event so far, in arrival   *)
(* order, each to the result of the one before.                           *)
(* dispatched: the number of events dispatched with rendering deferred.   *)
vars == <<display, previousValue, operation, waitingForNewValue,
          lastOperation, lastOperand, queue, eager, dispatched>>

(* Longest display the digit and decimal keys may build by appending. *)
MaxLen == 2

(* Largest magnitude of a number the model follows. *)
MaxVal == 11

(* Most events dispatched with rendering deferred, and most events one    *)
(* render may find queued.                                                *)
MaxEvents == 5
MaxBatch == 3

(* The digit keys pressed in the model. *)
Digits == {"0", "2", "5"}

(* The operator symbols; "*" stands for the multiplication sign and "/"   *)
(* for the division sign, as on the keyboard.                             *)
Operators == {"+", "-", "*", "/"}

(* null for the operation fields, and the number values. *)
NoOp == "null"
Null == [kind |-> "null", v |-> 0]
NaN == [kind |-> "nan", v |-> 0]
OutOfModel == [kind |-> "out", v |-> 0]
Num(h) == [kind |-> "num", v |-> h]

Abs(x) == IF x < 0 THEN -x ELSE x

InModel(n) == n.kind # "out"

(* A number of halves h as a modelled number, if its magnitude is followed. *)
Bounded(h) == IF Abs(h) <= 2 * MaxVal THEN Num(h) ELSE OutOfModel

ErrorStr == <<"E", "r", "r", "o", "r">>
NaNStr == <<"N", "a", "N">>

(* Stands for the text of a number the model does not follow. *)
OutStr == <<"?">>

DigitChars == {"0", "1", "2", "3", "4", "5", "6", "7", "8", "9"}

DigitVal(c) ==
  CASE c = "0" -> 0 [] c = "1" -> 1 [] c = "2" -> 2 [] c = "3" -> 3
    [] c = "4" -> 4 [] c = "5" -> 5 [] c = "6" -> 6 [] c = "7" -> 7
    [] c = "8" -> 8 [] c = "9" -> 9

DigitChar(d) ==
  CASE d = 0 -> "0" [] d = 1 -> "1" [] d = 2 -> "2" [] d = 3 -> "3"
    [] d = 4 -> "4" [] d = 5 -> "5" [] d = 6 -> "6" [] d = 7 -> "7"
    [] d = 8 -> "8" [] d = 9 -> "9"

(* Number of consecutive digit characters of s from position i on. *)
RECURSIVE DigitRun(_, _)
DigitRun(s, i) ==
  IF i <= Len(s) /\ s[i] \in DigitChars THEN 1 + DigitRun(s, i + 1) ELSE 0

(* Value of the digit string s[i..j] (0 for the empty range). *)
RECURSIVE DigitsValue(_, _, _)
DigitsValue(s, i, j) ==
  IF j < i THEN 0 ELSE 10 * DigitsValue(s, i, j - 1) + DigitVal(s[j])

(* Decimal digits of a natural number. *)
RECURSIVE NatStr(_)
NatStr(n) ==
  IF n < 10 THEN <<DigitChar(n)>>
  ELSE Append(NatStr(n \div 10), DigitChar(n % 10))

(* Halves in the fraction digits s[i..j]: 0 for all zeros, 1 for a 5      *)
(* followed by zeros, -1 for a fraction that is no multiple of a half.    *)
FractionHalves(s, i, j) ==
  IF \A k \in i..j : s[k] = "0" THEN 0
  ELSE IF s[i] = "5" /\ \A k \in (i + 1)..j : s[k] = "0" THEN 1
  ELSE -1

(* parseFloat: the longest prefix of s that is a decimal literal (a sign, *)
(* digits, a point and digits); NaN when no prefix is one.  No reachable  *)
(* display within the bounds carries an exponent or spells Infinity.      *)
parseFloat(s) ==
  LET signed == Len(s) > 0 /\ s[1] \in {"-", "+"}
      start == IF signed THEN 2 ELSE 1
      intLen == DigitRun(s, start)
      dot == start + intLen
      hasDot == dot <= Len(s) /\ s[dot] = "."
      fracLen == IF hasDot THEN DigitRun(s, dot + 1) ELSE 0
      whole == DigitsValue(s, start, dot - 1)
      frac == IF fracLen = 0 THEN 0 ELSE FractionHalves(s, dot + 1, dot + fracLen)
      halves == 2 * whole + frac
  IN  IF intLen = 0 /\ fracLen = 0 THEN NaN
      ELSE IF frac = -1 THEN OutOfModel
      ELSE Bounded(IF signed /\ s[1] = "-" THEN -halves ELSE halves)

(* Number.prototype.toString of a number. *)
toString(n) ==
  IF n.kind = "nan" THEN NaNStr
  ELSE IF n.kind = "out" THEN OutStr
  ELSE LET a == Abs(n.v)
           body == NatStr(a \div 2) \o (IF a % 2 = 1 THEN <<".", "5">> ELSE <<>>)
       IN  IF n.v < 0 THEN <<"-">> \o body ELSE body

(* The JavaScript operators +, -, * and / on two numbers.  The handlers   *)
(* never divide by zero: each tests the divisor first.                    *)
Arith(op, a, b) ==
  IF a.kind = "out" \/ b.kind = "out" THEN OutOfModel
  ELSE IF a.kind = "nan" \/ b.kind = "nan" THEN NaN
  ELSE CASE op = "+" -> Bounded(a.v + b.v)
         [] op = "-" -> Bounded(a.v - b.v)
         [] op = "*" -> IF (a.v * b.v) % 2 = 0
                        THEN Bounded((a.v * b.v) \div 2)
                        ELSE OutOfModel
         [] op = "/" -> IF b.v # 0 /\ (2 * Abs(a.v)) % Abs(b.v) = 0
                        THEN LET q == (2 * Abs(a.v)) \div Abs(b.v)
                             IN  Bounded(IF (a.v < 0) # (b.v < 0) THEN -q ELSE q)
                        ELSE OutOfModel

(* inputValue === 0 *)
IsZero(n) == n.kind = "num" /\ n.v = 0

(* A number used as a condition: 0 and NaN are falsy. *)
Truthy(n) == n.kind = "num" /\ n.v # 0

(* The CalculatorState record held by useState. *)
State ==
  [display |-> display,
   previousValue |-> previousValue,
   operation |-> operation,
   waitingForNewValue |-> waitingForNewValue,
   lastOperation |-> lastOperation,
   lastOperand |-> lastOperand]

(* The state useState is constructed with, which clear sets again. *)
InitialState ==
  [display |-> <<"0">>,
   previousValue |-> Null,
   operation |-> NoOp,
   waitingForNewValue |-> FALSE,
   lastOperation |-> NoOp,
   lastOperand |-> Null]

TypeOK ==
  /\ display \in Seq(STRING)
  /\ previousValue.kind \in {"null", "nan", "num"}
  /\ operation \in Operators \cup {NoOp}
  /\ waitingForNewValue \in BOOLEAN
  /\ lastOperation \in Operators \cup {NoOp}
  /\ lastOperand.kind \in {"null", "nan", "num"}

(* A state all of whose numbers the model follows. *)
Followed(s) ==
  /\ s.display # OutStr
  /\ InModel(s.previousValue)
  /\ InModel(s.lastOperand)

(* The record s becomes the rendered state. *)
commit(s) ==
  /\ display' = s.display
  /\ previousValue' = s.previousValue
  /\ operation' = s.operation
  /\ waitingForNewValue' = s.waitingForNewValue
  /\ lastOperation' = s.lastOperation
  /\ lastOperand' = s.lastOperand

(* setState followed by the render, before the next event arrives: the    *)
(* record returned by an updater becomes the state.                       *)
setState(s) ==
  /\ Followed(s)
  /\ commit(s)
  /\ eager' = s
  /\ UNCHANGED <<queue, dispatched>>

Init ==
  /\ display = InitialState.display
  /\ previousValue = InitialState.previousValue
  /\ operation = InitialState.operation
  /\ waitingForNewValue = InitialState.waitingForNewValue
  /\ lastOperation = InitialState.lastOperation
  /\ lastOperand = InitialState.lastOperand
  /\ queue = <<>>
  /\ eager = InitialState
  /\ dispatched = 0

(* The updater of inputNumber. *)
inputNumberUpdater(prevState, num) ==
  IF prevState.waitingForNewValue
  THEN [prevState EXCEPT !.display = <<num>>, !.waitingForNewValue = FALSE]
  ELSE IF prevState.display = <<"0">> \/ prevState.display = ErrorStr
  THEN [prevState EXCEPT !.display = <<num>>]
  ELSE [prevState EXCEPT !.display = Append(prevState.display, num)]

(* The updater of inputDecimal without its indexOf test. *)
inputDecimalUpdaterAlwaysAppends(prevState) ==
  IF prevState.waitingForNewValue
  THEN [prevState EXCEPT !.display = <<"0", ".">>, !.waitingForNewValue = FALSE]
  ELSE [prevState EXCEPT !.display = Append(prevState.display, ".")]

(* The updater of inputDecimal; indexOf('.') === -1 is "no point in it". *)
inputDecimalUpdater(prevState) ==
  IF prevState.waitingForNewValue
  THEN [prevState EXCEPT !.display = <<"0", ".">>, !.waitingForNewValue = FALSE]
  ELSE IF \A i \in 1..Len(prevState.display) : prevState.display[i] # "."
  THEN [prevState EXCEPT !.display = Append(prevState.display, ".")]
  ELSE prevState

(* The updater of performOperation. *)
performOperationUpdater(prevState, nextOperation) ==
  LET inputValue == parseFloat(prevState.display)
      currentValue == IF Truthy(prevState.previousValue)
                      THEN prevState.previousValue
                      ELSE Num(0)
      result == Arith(prevState.operation, currentValue, inputValue)
  IN  IF prevState.previousValue = Null
      THEN [prevState EXCEPT !.previousValue = inputValue,
                             !.operation = nextOperation,
                             !.waitingForNewValue = TRUE]
      ELSE IF prevState.operation # NoOp /\ prevState.waitingForNewValue
      THEN [prevState EXCEPT !.operation = nextOperation]
      ELSE IF prevState.operation = NoOp
      THEN prevState
      ELSE IF prevState.operation = "/" /\ IsZero(inputValue)
      THEN [prevState EXCEPT !.display = ErrorStr,
                             !.previousValue = Null,
                             !.operation = NoOp,
                             !.waitingForNewValue = TRUE]
      ELSE [prevState EXCEPT !.display = toString(result),
                             !.previousValue = result,
                             !.operation = nextOperation,
                             !.waitingForNewValue = TRUE,
                             !.lastOperation = prevState.operation,
                             !.lastOperand = inputValue]

(* The updater of calculate. *)
calculateUpdater(prevState) ==
  LET inputValue == parseFloat(prevState.display)
      repeated == Arith(prevState.lastOperation, inputValue, prevState.lastOperand)
      result == Arith(prevState.operation, prevState.previousValue, inputValue)
  IN  IF prevState.previousValue = Null \/ prevState.operation = NoOp
      THEN IF prevState.lastOperation # NoOp /\ prevState.lastOperand # Null
           THEN IF prevState.lastOperation = "/" /\ IsZero(prevState.lastOperand)
                THEN [prevState EXCEPT !.display = ErrorStr,
                                       !.waitingForNewValue = TRUE]
                ELSE [prevState EXCEPT !.display = toString(repeated),
                                       !.waitingForNewValue = TRUE]
           ELSE prevState
      ELSE IF prevState.operation = "/" /\ IsZero(inputValue)
      THEN [prevState EXCEPT !.display = ErrorStr,
                             !.previousValue = Null,
                             !.operation = NoOp,
                             !.waitingForNewValue = TRUE]
      ELSE [prevState EXCEPT !.display = toString(result),
                             !.previousValue = Null,
                             !.operation = NoOp,
                             !.waitingForNewValue = TRUE,
                             !.lastOperation = prevState.operation,
                             !.lastOperand = inputValue]

(* The updater of the Backspace branch of the keydown listener. *)
keyBackspaceUpdater(prevState) ==
  IF Len(prevState.display) > 1 /\ prevState.display # ErrorStr
  THEN [prevState EXCEPT
          !.display = SubSeq(prevState.display, 1, Len(prevState.display) - 1)]
  ELSE [prevState EXCEPT !.display = <<"0">>]

(* The updater of the delete button: prev.display.slice(0, -1) || '0'. *)
buttonBackspaceUpdater(prev) ==
  LET sliced == SubSeq(prev.display, 1, Len(prev.display) - 1)
  IN  [prev EXCEPT !.display = IF sliced # <<>> THEN sliced ELSE <<"0">>]

(* inputNumber without its waitingForNewValue and "Error" tests: the digit *)
(* is appended to whatever is on display, except a lone 0.                *)
inputNumberAlwaysAppends(num) ==
  /\ Len(display) <= Len(ErrorStr)
  /\ setState([State EXCEPT
                 !.display = IF display = <<"0">> THEN <<num>>
                             ELSE Append(display, num),
                 !.waitingForNewValue = FALSE])

(* A digit button or digit key.  The keys build displays of at most       *)
(* MaxLen characters.                                                     *)
inputNumber(num) ==
  /\ Len(inputNumberUpdater(State, num).display) <= MaxLen
  /\ setState(inputNumberUpdater(State, num))

(* inputDecimal that appends the point to a computed result instead of   *)
(* starting a new number.                                                 *)
inputDecimalAppendsToResult ==
  /\ ~waitingForNewValue => Len(inputDecimalUpdater(State).display) <= MaxLen
  /\ setState(IF waitingForNewValue
              THEN [State EXCEPT !.display = Append(display, "."),
                                 !.waitingForNewValue = FALSE]
              ELSE inputDecimalUpdater(State))

(* The point button or key. *)
inputDecimal ==
  /\ Len(inputDecimalUpdater(State).display) <= MaxLen
  /\ setState(inputDecimalUpdater(State))

(* clear that resets the pending operation but keeps the recorded one. *)
clearKeepsLast ==
  /\ setState([InitialState EXCEPT !.lastOperation = lastOperation,
                                   !.lastOperand = lastOperand])

(* The AC button, Escape, c or C. *)
clear ==
  /\ setState(InitialState)

(* performOperation whose division by zero leaves the operation pending,  *)
(* as the division by zero of the repeat path of calculate does.          *)
performOperationKeepsPending(nextOperation) ==
  /\ setState(IF /\ previousValue # Null
                 /\ operation = "/"
                 /\ ~waitingForNewValue
                 /\ IsZero(parseFloat(display))
              THEN [State EXCEPT !.display = ErrorStr,
                                 !.waitingForNewValue = TRUE]
              ELSE performOperationUpdater(State, nextOperation))

(* performOperation without the operator substitution branch: it computes *)
(* although no new operand was entered.                                   *)
performOperationNoSubstitution(nextOperation) ==
  /\ setState(performOperationUpdater(
                IF previousValue # Null
                THEN [State EXCEPT !.waitingForNewValue = FALSE]
                ELSE State,
                nextOperation))

(* An operator button or key. *)
performOperation(nextOperation) ==
  /\ setState(performOperationUpdater(State, nextOperation))

(* calculate that records the operation but not the operand. *)
calculateForgetsOperand ==
  /\ setState([calculateUpdater(State) EXCEPT !.lastOperand = Null])

(* calculate whose repeat path records the displayed value as operand. *)
calculateRepeatRecords ==
  /\ setState(IF previousValue = Null /\ lastOperation # NoOp
              THEN [calculateUpdater(State) EXCEPT
                      !.lastOperand = parseFloat(display)]
              ELSE calculateUpdater(State))

(* calculate that does not clear previousValue. *)
calculateKeepsPrevious ==
  /\ setState([calculateUpdater(State) EXCEPT !.previousValue = previousValue])

(* calculate whose repeat path takes lastOperand as the left operand. *)
calculateRepeatSwapped ==
  /\ setState(IF previousValue = Null /\ lastOperation # NoOp
              THEN [State EXCEPT
                      !.display = toString(Arith(lastOperation, lastOperand,
                                                 parseFloat(display))),
                      !.waitingForNewValue = TRUE]
              ELSE calculateUpdater(State))

(* calculate that takes 0 as the right-hand value when no new operand was *)
(* entered.                                                               *)
calculateZeroWhenWaiting ==
  /\ setState(calculateUpdater(
                IF waitingForNewValue /\ operation # NoOp
                THEN [State EXCEPT !.display = <<"0">>]
                ELSE State))

(* calculate that sets waitingForNewValue on every path. *)
calculateAlwaysWaits ==
  /\ setState([calculateUpdater(State) EXCEPT !.waitingForNewValue = TRUE])

(* calculate whose division by zero records the division and its zero    *)
(* operand.                                                               *)
calculateRecordsOnError ==
  /\ setState(IF previousValue # Null /\ operation = "/"
                 /\ IsZero(parseFloat(display))
              THEN [calculateUpdater(State) EXCEPT
                      !.lastOperation = operation,
                      !.lastOperand = parseFloat(display)]
              ELSE calculateUpdater(State))

(* The = button, Enter or the = key. *)
calculate ==
  /\ setState(calculateUpdater(State))

(* The Backspace key taken as the start of a new number. *)
handleKeyPressBackspaceEndsWaiting ==
  /\ setState([keyBackspaceUpdater(State) EXCEPT !.waitingForNewValue = FALSE])

(* The Backspace key. *)
handleKeyPressBackspace ==
  /\ setState(keyBackspaceUpdater(State))

(* The delete button without its || '0' fallback. *)
backspaceButtonNoFallback ==
  /\ setState([State EXCEPT !.display = SubSeq(display, 1, Len(display) - 1)])

(* The delete button. *)
backspaceButton ==
  /\ setState(buttonBackspaceUpdater(State))

Next ==
  \/ \E num \in Digits : inputNumber(num)
  \/ inputDecimal
  \/ clear
  \/ \E nextOperation \in Operators : performOperation(nextOperation)
  \/ calculate
  \/ handleKeyPressBackspace
  \/ backspaceButton

Spec == Init /\ [][Next]_vars

(***************************************************************************)
(* Batched dispatch: several events are handled before React renders.     *)
(* Each handler passes one update to setState; React keeps the updates in *)
(* the order of the calls and, at the render, applies them one after the  *)
(* other, a function to the state the update before it produced.          *)
(***************************************************************************)

Ev(type, arg) == [type |-> type, arg |-> arg]

(* The events of the keydown listener and of the buttons. *)
Events ==
  {Ev("Digit", d) : d \in Digits}
    \cup {Ev("Operator", op) : op \in Operators}
    \cup {Ev(t, "") : t \in {"Decimal", "Equals", "Clear", "BackspaceKey",
                             "BackspaceButton"}}

(* The state the handler of event e makes of state s. *)
Handler(e, s) ==
  CASE e.type = "Digit" -> inputNumberUpdater(s, e.arg)
    [] e.type = "Decimal" -> inputDecimalUpdater(s)
    [] e.type = "Operator" -> performOperationUpdater(s, e.arg)
    [] e.type = "Equals" -> calculateUpdater(s)
    [] e.type = "Clear" -> InitialState
    [] e.type = "BackspaceKey" -> keyBackspaceUpdater(s)
    [] e.type = "BackspaceButton" -> buttonBackspaceUpdater(s)

(* The update every handler computes from the state of the render it was  *)
(* created in, as setState({...state, ...}) would.                        *)
UpdateFromRenderedState(e) ==
  [kind |-> "value", event |-> e, value |-> Handler(e, State)]

(* The argument the handler of event e passes to setState: clear passes   *)
(* an object, every other handler a function of the previous state.       *)
Update(e) ==
  IF e.type = "Clear"
  THEN [kind |-> "value", event |-> e, value |-> InitialState]
  ELSE [kind |-> "updater", event |-> e, value |-> InitialState]

(* React applies one queued update to the state s. *)
ApplyUpdate(u, s) ==
  IF u.kind = "value" THEN u.value ELSE Handler(u.event, s)

(* React applies the queued updates q to the state s in their order. *)
RECURSIVE ProcessQueue(_, _)
ProcessQueue(q, s) ==
  IF q = <<>> THEN s ELSE ProcessQueue(Tail(q), ApplyUpdate(Head(q), s))

(* An event arrives and its handler calls setState; no render yet. *)
dispatch(e) ==
  /\ dispatched < MaxEvents
  /\ Len(queue) < MaxBatch
  /\ Followed(Handler(e, eager))
  /\ e.type \in {"Digit", "Decimal"} => Len(Handler(e, eager).display) <= MaxLen
  /\ queue' = Append(queue, Update(e))
  /\ eager' = Handler(e, eager)
  /\ dispatched' = dispatched + 1
  /\ UNCHANGED <<display, previousValue, operation, waitingForNewValue,
                 lastOperation, lastOperand>>

(* React renders: the queued updates are applied and the queue is empty. *)
render ==
  /\ queue # <<>>
  /\ commit(ProcessQueue(queue, State))
  /\ queue' = <<>>
  /\ UNCHANGED <<eager, dispatched>>

NextBatch ==
  \/ \E e \in Events : dispatch(e)
  \/ render

SpecBatch == Init /\ [][NextBatch]_vars

(***************************************************************************)
(* Properties.                                                             *)
(***************************************************************************)

(* s is a numeral: an optional minus sign, at least one digit, and        *)
(* optionally a point followed by any number of digits (a numeral in      *)
(* progress may end with the point).                                      *)
IsNumeral(s) ==
  LET start == IF Len(s) > 0 /\ s[1] = "-" THEN 2 ELSE 1
      intLen == DigitRun(s, start)
      dot == start + intLen
  IN  /\ intLen >= 1
      /\ \/ dot = Len(s) + 1
         \/ /\ s[dot] = "."
            /\ dot + DigitRun(s, dot + 1) = Len(s)

(* The outcome of a division by zero on a pending operation. *)
DivisionByZeroOutcome ==
  /\ display' = ErrorStr
  /\ previousValue' = Null
  /\ operation' = NoOp
  /\ waitingForNewValue' = TRUE
  /\ UNCHANGED <<lastOperation, lastOperand>>

(* An operation is pending and the right-hand operand on display is zero. *)
PendingDivisionByZero ==
  /\ previousValue # Null
  /\ operation = "/"
  /\ IsZero(parseFloat(display))

(* C1: in every reachable state display is a numeral or exactly "Error". *)
C1_DisplayNumeralOrError == IsNumeral(display) \/ display = ErrorStr

(* C2: resolving a pending division whose right-hand operand is zero, by  *)
(* Equals or by an Operator pressed after the operand was entered, gives  *)
(* display "Error", no previousValue, no operation, waitingForNewValue    *)
(* true and lastOperation/lastOperand as before.                          *)
C2_DivisionByZero ==
  [][/\ (PendingDivisionByZero /\ calculate) => DivisionByZeroOutcome
     /\ \A op \in Operators :
          (PendingDivisionByZero /\ ~waitingForNewValue /\ performOperation(op))
            => DivisionByZeroOutcome]_vars

(* C2 witness: the error state of a division by zero that followed the    *)
(* calculation 5 + 2, whose operation and operand are still recorded.     *)
C2_Witness ==
  /\ display = ErrorStr
  /\ previousValue = Null
  /\ operation = NoOp
  /\ waitingForNewValue
  /\ lastOperation = "+"
  /\ lastOperand = Num(4)

(* C3: from a state showing "Error" a digit d gives display d and Clear   *)
(* gives the initial state.                                               *)
C3_ErrorRecovery ==
  [][/\ \A d \in Digits : (display = ErrorStr /\ inputNumber(d)) => display' = <<d>>
     /\ (display = ErrorStr /\ clear) => State' = InitialState]_vars

(* C3 witness: the state after 5, division, 0, =, where both keys are     *)
(* accepted.                                                              *)
C3_Witness ==
  /\ display = ErrorStr
  /\ State = [InitialState EXCEPT !.display = ErrorStr, !.waitingForNewValue = TRUE]
  /\ ENABLED inputNumber("5")
  /\ ENABLED clear

(* C4: lastOperation and lastOperand are both present or both absent. *)
C4_LastSetTogether == (lastOperation = NoOp) <=> (lastOperand = Null)

(* C4 witness: a state in which both are present. *)
C4_Witness == lastOperation # NoOp /\ lastOperand # Null

(* A step that computes a result from the pending operation and records  *)
(* the operation and the operand it consumed.                             *)
CommitsResult ==
  /\ previousValue # Null
  /\ operation # NoOp
  /\ display' # ErrorStr
  /\ lastOperation' = operation
  /\ lastOperand' = parseFloat(display)
  /\ \/ calculate
     \/ ~waitingForNewValue /\ \E op \in Operators : performOperation(op)

(* C5: lastOperation and lastOperand change only in a step that computes  *)
(* a result from a pending operation, or in Clear, and only Clear makes   *)
(* them absent.                                                           *)
C5_LastChangesOnlyOnCommit ==
  [][/\ (lastOperation' # lastOperation \/ lastOperand' # lastOperand)
          => (CommitsResult \/ clear)
     /\ ((lastOperation # NoOp /\ lastOperation' = NoOp)
          \/ (lastOperand # Null /\ lastOperand' = Null)) => clear]_vars

(* C5 witness: after 5, -, 2, x the subtraction and its operand 2 are     *)
(* recorded, 3 is on display and the multiplication is pending.           *)
C5_Witness ==
  /\ lastOperation = "-"
  /\ lastOperand = Num(4)
  /\ display = <<"3">>
  /\ previousValue = Num(6)
  /\ operation = "*"
  /\ waitingForNewValue

(* C6: operation is present exactly when previousValue is, in the initial *)
(* state and after every step; it is absent after every Equals, Clear and *)
(* division by zero, and only an Operator step makes it present.          *)
C6_OperationPending ==
  /\ operation = NoOp <=> previousValue = Null
  /\ [][/\ operation' = NoOp <=> previousValue' = Null
        /\ (calculate \/ clear) => operation' = NoOp
        /\ (operation = NoOp /\ operation' # NoOp)
             => \E op \in Operators : performOperation(op)
        /\ (/\ PendingDivisionByZero
            /\ ~waitingForNewValue
            /\ \E op \in Operators : performOperation(op))
             => operation' = NoOp]_vars

(* C6 witness: after a calculation, 5 is staged with the multiplication   *)
(* pending.                                                               *)
C6_Witness ==
  /\ operation = "*"
  /\ previousValue = Num(10)
  /\ waitingForNewValue
  /\ lastOperation # NoOp

(* C7: an Operator pressed with an operation pending and a new operand b  *)
(* entered makes display and previousValue (previousValue op b), stages   *)
(* the pressed operator, sets waitingForNewValue and records the consumed *)
(* operator and b.  A division by zero is left to C2.                     *)
C7_ChainLeftToRight ==
  [][\A op \in Operators :
       (/\ previousValue # Null
        /\ operation # NoOp
        /\ ~waitingForNewValue
        /\ ~PendingDivisionByZero
        /\ performOperation(op))
       => /\ previousValue' = Arith(operation, previousValue, parseFloat(display))
          /\ display' = toString(previousValue')
          /\ operation' = op
          /\ waitingForNewValue' = TRUE
          /\ lastOperation' = operation
          /\ lastOperand' = parseFloat(display)]_vars

(* C8: Equals with nothing pending and a recorded operation shows         *)
(* (display value lastOperation lastOperand), sets waitingForNewValue and *)
(* changes no other field.                                                *)
C8_RepeatEquals ==
  [][(/\ previousValue = Null
      /\ operation = NoOp
      /\ lastOperation # NoOp
      /\ lastOperand # Null
      /\ calculate)
     => /\ display' = toString(Arith(lastOperation, parseFloat(display), lastOperand))
        /\ waitingForNewValue' = TRUE
        /\ UNCHANGED <<previousValue, operation, lastOperation, lastOperand>>]_vars

(* C8 witness: 9 on display with + 2 recorded, as after 5, +, 2, =, =. *)
C8_Witness ==
  /\ display = <<"9">>
  /\ waitingForNewValue
  /\ previousValue = Null
  /\ operation = NoOp
  /\ lastOperation = "+"
  /\ lastOperand = Num(4)

(* C9: an Operator pressed with an operation pending and                  *)
(* waitingForNewValue true changes the operation field only.              *)
C9_OperatorSubstitution ==
  [][\A op \in Operators :
       (/\ previousValue # Null
        /\ operation # NoOp
        /\ waitingForNewValue
        /\ performOperation(op))
       => /\ operation' = op
          /\ UNCHANGED <<display, previousValue, waitingForNewValue,
                         lastOperation, lastOperand>>]_vars

(* C9 witness: 10 on display with x 2 recorded, as after 5, +, x, 2, =. *)
C9_Witness ==
  /\ display = <<"1", "0">>
  /\ lastOperation = "*"
  /\ lastOperand = Num(4)
  /\ operation = NoOp
  /\ waitingForNewValue

(* The state right after an operand a was staged by an Operator: a is     *)
(* both the staged value and the value on display.                        *)
OperandJustStaged ==
  /\ operation # NoOp
  /\ waitingForNewValue
  /\ previousValue.kind = "num"
  /\ parseFloat(display) = previousValue

C11_ClearResets == [][clear => State' = InitialState]_vars

(* C11 witness: the state after 5, +, 2, x, in which every field differs  *)
(* from its initial value and Clear is accepted.                          *)
C11_Witness ==
  /\ display = <<"7">>
  /\ previousValue = Num(14)
  /\ operation = "*"
  /\ waitingForNewValue
  /\ lastOperation = "+"
  /\ lastOperand = Num(4)
  /\ ENABLED clear

(* display is "0", "Error" or a single character. *)
BackspaceToZeroCase ==
  display = <<"0">> \/ display = ErrorStr \/ Len(display) = 1

(* C12: Backspace, by the delete button or by the Backspace key, on a     *)
(* display that is "0", "Error" or a single character gives display "0".  *)
C12_BackspaceToZero ==
  [][(BackspaceToZeroCase /\ (handleKeyPressBackspace \/ backspaceButton))
       => display' = <<"0">>]_vars

(* C13: display is never the empty string. *)
C13_DisplayNeverEmpty == display # <<>>

(* C13 witness: 5, + and a backspace: the single character on display was *)
(* removed and "0" took its place, with 5 still staged.                   *)
C13_Witness ==
  /\ display = <<"0">>
  /\ previousValue = Num(10)
  /\ operation = "+"
  /\ waitingForNewValue
  /\ lastOperation = NoOp

(* Number of "." characters in s. *)
Points(s) == Cardinality({i \in 1..Len(s) : s[i] = "."})

(* C14: display holds at most one ".". *)
C14_AtMostOnePoint == Points(display) <= 1

(* C14 witness: the key "." pressed on the result 2.5 of 5, division, 2,  *)
(* =: the result holds a point and a new number "0." was started.         *)
C14_Witness ==
  /\ display = <<"0", ".">>
  /\ ~waitingForNewValue
  /\ lastOperation = "/"
  /\ lastOperand = Num(4)
  /\ previousValue = Null

(* C15: Equals with no operation pending and no operation recorded        *)
(* changes no field.                                                      *)
C15_EqualsNoOp ==
  [][(/\ previousValue = Null \/ operation = NoOp
      /\ lastOperation = NoOp
      /\ lastOperand = Null
      /\ calculate)
     => UNCHANGED vars]_vars

(* C15 witness: 25 typed and nothing else; Equals is accepted. *)
C15_Witness ==
  /\ State = [InitialState EXCEPT !.display = <<"2", "5">>]
  /\ ENABLED calculate

(* C16: after a Decimal step a second Decimal changes no field. *)
C16_DecimalIdempotent ==
  [][inputDecimal => inputDecimalUpdater(State') = State']_vars

(* C16 witness: "5." typed with the division pending; Decimal is accepted *)
(* again.                                                                 *)
C16_Witness ==
  /\ display = <<"5", ".">>
  /\ ~waitingForNewValue
  /\ operation = "/"
  /\ ENABLED inputDecimal

(* C18: with an operation pending and a new operand entered, an Operator  *)
(* and Equals both show previousValue operation inputValue.               *)
C18_SameResolution ==
  (previousValue # Null /\ operation # NoOp /\ ~waitingForNewValue)
    => \A op \in Operators :
         /\ performOperationUpdater(State, op).display
              = calculateUpdater(State).display
         /\ ~PendingDivisionByZero
              => calculateUpdater(State).display
                   = toString(Arith(operation, previousValue, parseFloat(display)))

(* C19: a recorded division never has a zero operand, so the repeat path  *)
(* of Equals never turns a display that is not "Error" into "Error".      *)
C19_NoRepeatDivisionByZero ==
  /\ lastOperation = "/" => ~IsZero(lastOperand)
  /\ (/\ previousValue = Null \/ operation = NoOp
      /\ display # ErrorStr)
       => calculateUpdater(State).display # ErrorStr

(* C19 witness: after 5, division, 2, = the division by 2 is recorded,    *)
(* nothing is pending and Equals would repeat it.                         *)
C19_Witness ==
  /\ lastOperation = "/"
  /\ lastOperand = Num(4)
  /\ display = <<"2", ".", "5">>
  /\ previousValue = Null
  /\ operation = NoOp
  /\ waitingForNewValue

(* s is not empty and made of digits and at most one ".". *)
IsTyped(s) ==
  /\ s # <<>>
  /\ \A i \in 1..Len(s) : s[i] \in DigitChars \cup {"."}
  /\ Points(s) <= 1

(* C20: while waitingForNewValue is false display is not empty and made   *)
(* of digits and at most one "."; so "Error" implies waitingForNewValue.  *)
C20_TypedWhileNotWaiting ==
  /\ ~waitingForNewValue => IsTyped(display)
  /\ display = ErrorStr => waitingForNewValue

(* C20 witness: a digit typed after the negative result of 2, -, 5, =. *)
C20_Witness ==
  /\ ~waitingForNewValue
  /\ display = <<"5">>
  /\ lastOperation = "-"
  /\ lastOperand = Num(10)
  /\ previousValue = Null

(* C17: whatever was rendered and whatever is queued, applying the queue  *)
(* gives the state of applying all events in arrival order; so after      *)
(* every render the state is that fold and no event's effect is lost.     *)
C17_ArrivalOrder == ProcessQueue(queue, State) = eager

(* C17 witness: 2 and 5 dispatched in one batch from the initial state;   *)
(* the second handler has to see the first one's digit to give "25".      *)
C17_Witness ==
  /\ State = InitialState
  /\ Len(queue) = 2
  /\ eager.display = <<"2", "5">>
  /\ ENABLED render

====
